---- MODULE Spec2Model ----
(***************************************************************************)
(* State-machine model of the Tetris engine of src/index.js: the timer     *)
(* callback of StartGame (one tick = DrawGameOver/clearInterval check +    *)
(* GameLoop) and the four keyboard commands of HandleKeyInput.             *)
(*                                                                         *)
(* Representation choices:                                                 *)
(*  - a collision row (a JavaScript number produced by | and & on int32)   *)
(*    is the set of its set bit positions, a subset of 0..31; Int32 gives  *)
(*    its numeric value back for the comparison with _fullRowVal;          *)
(*  - square objects live in `heap`; _placedSquares and _fallingSquares    *)
(*    hold references (indices into heap), because the code pushes the     *)
(*    same object into both arrays and then mutates it in place;           *)
(*  - the board is scaled down (_boardWidth, _boardHeight are 10 and 22    *)
(*    in the source) so that the reachable states can be enumerated.       *)
(***************************************************************************)
EXTENDS Integers, Sequences, FiniteSets, TLC

\* ------------------------------------------------------------------ bounds
\* Board size (10 x 22 in the source, scaled down here).
_boardWidth == 4
_boardHeight == 5
\* Number of consecutive direct calls on one cell of the collision index.
MaxProbeCalls == 2
\* Number of timer callbacks explored.
MaxTicks == 6
\* How many columns outside the board a sideways move may carry a cell.
MaxShift == 1
\* Number of timer callbacks after which no further piece is followed.
MaxLiveTicks == 3
\* Largest number of occupied cells of a matrix handed to RotatePiece directly.
MaxOccupied == 4
\* Number of consecutive direct calls of RotatePiece on one matrix.
MaxRotations == 4

\* ------------------------------------------------------- program constants
\* Width of the operands of <<, | and & (the shift count is taken mod 32).
IntBits == 32

\* The 'false' entries of a piece matrix.
NoSquare == "false"

Max(a, b) == IF a >= b THEN a ELSE b

\* ------------------------------------------------------------ bit algebra
\* 1 << x
Bit(x) == {x % IntBits}

RECURSIVE Pow2(_)
Pow2(n) == IF n = 0 THEN 1 ELSE 2 * Pow2(n - 1)

RECURSIVE SumBits(_)
SumBits(bits) ==
    IF bits = {} THEN 0
    ELSE LET b == CHOOSE e \in bits : TRUE
         IN  Pow2(b) + SumBits(bits \ {b})

\* The signed 32-bit value of a row: bit 31 weighs -2^31.
Int32(bits) ==
    LET low == SumBits(bits \ {IntBits - 1})
    IN  IF (IntBits - 1) \in bits
        THEN (low - Pow2(IntBits - 2)) - Pow2(IntBits - 2)
        ELSE low

\* Math.pow(2, _boardWidth) - 1
_fullRowVal == Pow2(_boardWidth) - 1

\* _collisionRows[y] as an operand of | or &: a missing entry (undefined)
\* converts to 0.
Row(rows, y) == IF (y + 1) \in DOMAIN rows THEN rows[y + 1] ELSE {}

\* _collisionRows[y] = v; an index past the end lengthens the array.
SetRow(rows, y, v) ==
    [i \in 1..Max(Len(rows), y + 1) |->
        IF i = y + 1 THEN v
        ELSE IF i <= Len(rows) THEN rows[i] ELSE {}]

FixSquareAt(rows, x, y) == SetRow(rows, y, Row(rows, y) \cup Bit(x))

\* The truthiness of _collisionRows[y] & (1 << x).
SquareFixedAt(rows, x, y) == (Row(rows, y) \cap Bit(x)) # {}

UnfixSquareAt(rows, x, y) == SetRow(rows, y, Row(rows, y) \cap Bit(x))

\* ---------------------------------------------------------------- pieces
iPiece == [color |-> "cyan",
           blocks |-> << <<0,0,0,0>>, <<1,1,1,1>>, <<0,0,0,0>>, <<0,0,0,0>> >>]
jPiece == [color |-> "blue",
           blocks |-> << <<1,0,0>>, <<1,1,1>>, <<0,0,0>> >>]
lPiece == [color |-> "orange",
           blocks |-> << <<0,0,1>>, <<1,1,1>>, <<0,0,0>> >>]
oPiece == [color |-> "yellow",
           blocks |-> << <<0,0,0,0>>, <<0,1,1,0>>, <<0,1,1,0>>, <<0,0,0,0>> >>]
sPiece == [color |-> "green",
           blocks |-> << <<0,1,1>>, <<1,1,0>>, <<0,0,0>> >>]
tPiece == [color |-> "purple",
           blocks |-> << <<0,1,0>>, <<1,1,1>>, <<0,0,0>> >>]
zPiece == [color |-> "red",
           blocks |-> << <<1,1,0>>, <<0,1,1>>, <<0,0,0>> >>]

pieceTypes == <<iPiece, jPiece, lPiece, oPiece, sPiece, tPiece, zPiece>>

\* The values Math.round(Math.random()*(pieceTypes.length-1)) can take,
\* shifted to the 1-based indices of pieceTypes.
PieceChoices == 1..Len(pieceTypes)

\* The piece built from pieceTypes[k]: 0 becomes false, 1 becomes the color.
GenerateNewPiece(k) ==
    LET randomPiece == pieceTypes[k]
        n == Len(randomPiece.blocks)
    IN  [tag |-> "piece", x |-> 0, y |-> 0,
         m |-> [i \in 1..n |-> [j \in 1..n |->
                  IF randomPiece.blocks[i][j] = 0 THEN NoSquare
                  ELSE randomPiece.color]]]

\* Math.round(_boardWidth/2) - 2
SpawnOffset == ((_boardWidth + 1) \div 2) - 2

\* The (x, y, color) of the occupied cells of a piece, in the order the
\* loops of the code visit them (row by row, left to right).
RECURSIVE CellsFrom(_, _, _)
CellsFrom(p, i, j) ==
    LET n == Len(p.m)
    IN  IF i > n THEN << >>
        ELSE IF j > n THEN CellsFrom(p, i + 1, 1)
        ELSE IF p.m[i][j] = NoSquare THEN CellsFrom(p, i, j + 1)
        ELSE << [x |-> p.x + (j - 1), y |-> p.y + (i - 1), color |-> p.m[i][j]] >>
             \o CellsFrom(p, i, j + 1)

Cells(p) == CellsFrom(p, 1, 1)

Range(s) == {s[i] : i \in DOMAIN s}

\* RotatePiece with the first entry of the literal mistyped as m[n-1][1].
RotatePiece_MistypedEntry(m) ==
    LET n == Len(m)
    IN  [r \in 1..n |-> [c \in 1..n |->
            IF r = 1 /\ c = 1 THEN m[n][2] ELSE m[n + 1 - c][r]]]

\* The matrix turned by a quarter turn: new[r][c] = m[n-1-c][r] (0-based).
RotatePiece(m) ==
    LET n == Len(m)
    IN  [r \in 1..n |-> [c \in 1..n |-> m[n + 1 - c][r]]]

\* The values _activePiece takes when there is no piece: the empty array it
\* is initialised with, and null after a landing.
EmptyArray == [tag |-> "array", x |-> 0, y |-> 0, m |-> << >>]
Null == [tag |-> "null", x |-> 0, y |-> 0, m |-> << >>]

\* ------------------------------------------------------------- variables
VARIABLES
    _gameInPlay,      \* false once the player has lost
    _gamePaused,      \* toggled by 'p'
    _placedSquares,   \* array of references to square objects
    _fallingSquares,  \* array of references to square objects
    _collisionRows,   \* array of rows, each the set of its set bits
    _activePiece,     \* EmptyArray, Null or a piece {x, y, m}
    _pieceInPlay,     \* whether a piece is under the player's control
    heap,             \* the square objects {x, y, color}, by reference
    intervalId,       \* TRUE while the setInterval timer is armed
    gameOverDrawn,    \* number of calls of DrawGameOver so far
    ticks,            \* number of timer callbacks run so far
    lastTick,         \* what the most recent timer callback did
    probe             \* the last direct call on the collision index

vars == <<_gameInPlay, _gamePaused, _placedSquares, _fallingSquares,
          _collisionRows, _activePiece, _pieceInPlay, heap, intervalId,
          gameOverDrawn, ticks, lastTick, probe>>

\* The part of the state the game logic works on, as one value.
Game == [placed |-> _placedSquares, falling |-> _fallingSquares,
         rows |-> _collisionRows, piece |-> _activePiece,
         inPlay |-> _pieceInPlay, heap |-> heap]

\* A timer callback that did nothing observable.
NoTick == [notified |-> FALSE, spawn |-> "none", shape |-> 0, ran |-> FALSE]

\* No direct call on the collision index has been made.
NoProbe == [op |-> "none", x |-> 0, y |-> 0, before |-> << >>, n |-> 0]

\* ------------------------------------------------------------ game logic
\* The piece SpawnNewPiece tries to place: pieceTypes[k], moved to the
\* middle of the board.
SpawnPiece(k) == [GenerateNewPiece(k) EXCEPT !.x = @ + SpawnOffset]

\* SpawnFits with the scan of the piece matrix stopped after the first
\* occupied cell.
SpawnFits_FirstCellOnly(rows, k) ==
    LET c == Cells(SpawnPiece(k))[1]
    IN  ~SquareFixedAt(rows, c.x, c.y)

\* Whether SpawnNewPiece returns true for pieceTypes[k].
SpawnFits(rows, k) ==
    \A c \in Range(Cells(SpawnPiece(k))) : ~SquareFixedAt(rows, c.x, c.y)

SpawnNewPiece(g, k) ==
    IF SpawnFits(g.rows, k)
    THEN [g EXCEPT !.piece = SpawnPiece(k), !.inPlay = TRUE]
    ELSE g

\* The test of the first loop of ProcessGravity: no occupied cell is on the
\* last row or has a fixed square below it.
MovePlayerPiece(g) ==
    \A c \in Range(Cells(g.piece)) :
        ~(c.y > _boardHeight - 2 \/ SquareFixedAt(g.rows, c.x, c.y + 1))

\* The forEach that turns the cells of the piece into fixed squares.
RECURSIVE FixCells(_, _, _)
FixCells(g, cells, k) ==
    IF k > Len(cells) THEN g
    ELSE LET c == cells[k]
         IN  FixCells([g EXCEPT !.rows = FixSquareAt(g.rows, c.x, c.y),
                                !.heap = Append(g.heap, c),
                                !.placed = Append(g.placed, Len(g.heap) + 1)],
                      cells, k + 1)

\* PieceGravity without the _activePiece.y++ of a piece that is free to move.
PieceGravity_NoMove(g) ==
    IF MovePlayerPiece(g)
    THEN g
    ELSE [FixCells(g, Cells(g.piece), 1) EXCEPT !.piece = Null, !.inPlay = FALSE]

\* First half of ProcessGravity: the player piece moves down or lands.
PieceGravity(g) ==
    IF MovePlayerPiece(g)
    THEN [g EXCEPT !.piece.y = @ + 1]
    ELSE [FixCells(g, Cells(g.piece), 1) EXCEPT !.piece = Null, !.inPlay = FALSE]

\* Second half of ProcessGravity: the forEach over _fallingSquares.
RECURSIVE SquaresGravity(_, _, _)
SquaresGravity(g, k, stillFalling) ==
    IF k > Len(g.falling) THEN [g EXCEPT !.falling = stillFalling]
    ELSE LET r == g.falling[k]
             b == g.heap[r]
         IN  IF b.y < _boardHeight - 1 /\ ~SquareFixedAt(g.rows, b.x, b.y + 1)
             THEN SquaresGravity([g EXCEPT !.heap[r].y = @ + 1], k + 1,
                                 Append(stillFalling, r))
             ELSE SquaresGravity([g EXCEPT !.rows = FixSquareAt(g.rows, b.x, b.y)],
                                 k + 1, stillFalling)

ProcessGravity(g) == SquaresGravity(PieceGravity(g), 1, << >>)

\* The forEach of RemoveRow over _placedSquares, from index k on.
RECURSIVE ReleaseSquares(_, _, _, _)
ReleaseSquares(g, rowIndex, k, newBoard) ==
    IF k > Len(g.placed) THEN [g EXCEPT !.placed = newBoard]
    ELSE LET r == g.placed[k]
             b == g.heap[r]
         IN  IF b.y = rowIndex
             THEN ReleaseSquares(g, rowIndex, k + 1, newBoard)
             ELSE ReleaseSquares(
                    [g EXCEPT !.rows = UnfixSquareAt(g.rows, b.x, b.y),
                              !.falling = Append(g.falling, r)],
                    rowIndex, k + 1, Append(newBoard, r))

RemoveRow(g, rowIndex) ==
    ReleaseSquares([g EXCEPT !.rows = SetRow(g.rows, rowIndex, {})],
                   rowIndex, 1, << >>)

\* The test of CheckForRowsCleared on row i.
RowIsFull(rows, i) == Int32(Row(rows, i)) = _fullRowVal

\* The loop of CheckForRowsCleared from row i on.
RECURSIVE ScanFrom(_, _)
ScanFrom(g, i) ==
    IF i >= _boardHeight THEN g
    ELSE IF RowIsFull(g.rows, i) THEN ScanFrom(RemoveRow(g, i), i + 1)
    ELSE ScanFrom(g, i + 1)

CheckForRowsCleared(g) == ScanFrom(g, 0)

\* GameLoop past the pause test and the spawn: gravity, then the scan.
RunLogic(g) == CheckForRowsCleared(ProcessGravity(g))

\* ------------------------------------------------------------------ Init
\* The state when StartGame has pushed _boardHeight zeros and armed the timer.
Init ==
    /\ _gameInPlay = TRUE
    /\ _gamePaused = FALSE
    /\ _placedSquares = << >>
    /\ _fallingSquares = << >>
    /\ _collisionRows = [i \in 1.._boardHeight |-> {}]
    /\ _activePiece = EmptyArray
    /\ _pieceInPlay = FALSE
    /\ heap = << >>
    /\ intervalId = TRUE
    /\ gameOverDrawn = 0
    /\ ticks = 0
    /\ lastTick = NoTick
    /\ probe = NoProbe

\* --------------------------------------------------------------- actions
\* Store the value g of the game logic into the variables.
SetGame(g) ==
    /\ _placedSquares' = g.placed
    /\ _fallingSquares' = g.falling
    /\ _collisionRows' = g.rows
    /\ _activePiece' = g.piece
    /\ _pieceInPlay' = g.inPlay
    /\ heap' = g.heap

\* GameLoop() past its pause test, with k the piece GenerateNewPiece draws if
\* it is called and notified whether the callback has just called
\* DrawGameOver.
GameLoopUnpaused(k, notified) ==
    IF ~_pieceInPlay
    THEN IF SpawnFits(_collisionRows, k)
         THEN /\ SetGame(RunLogic(SpawnNewPiece(Game, k)))
              /\ UNCHANGED _gameInPlay
              /\ lastTick' = [notified |-> notified, spawn |-> "ok",
                              shape |-> k, ran |-> TRUE]
         ELSE \* SetGameOver(); return
              /\ _gameInPlay' = FALSE
              /\ UNCHANGED <<_placedSquares, _fallingSquares, _collisionRows,
                             _activePiece, _pieceInPlay, heap>>
              /\ lastTick' = [notified |-> notified, spawn |-> "failed",
                              shape |-> k, ran |-> FALSE]
    ELSE /\ SetGame(RunLogic(Game))
         /\ UNCHANGED _gameInPlay
         /\ lastTick' = [notified |-> notified, spawn |-> "none",
                         shape |-> 0, ran |-> TRUE]

\* GameLoop without its test of _gamePaused.
GameLoop_IgnoresPause(k, notified) == GameLoopUnpaused(k, notified)

\* GameLoop().
GameLoop(k, notified) ==
    IF _gamePaused
    THEN /\ UNCHANGED <<_gameInPlay, _placedSquares, _fallingSquares,
                        _collisionRows, _activePiece, _pieceInPlay, heap>>
         /\ lastTick' = [NoTick EXCEPT !.notified = notified]
    ELSE GameLoopUnpaused(k, notified)

\* The body of the setInterval callback of StartGame.
Callback ==
    /\ UNCHANGED <<_gamePaused, probe>>
    /\ IF ~_gameInPlay
       THEN /\ gameOverDrawn' = gameOverDrawn + 1
            /\ intervalId' = FALSE
       ELSE UNCHANGED <<gameOverDrawn, intervalId>>
    /\ \E k \in PieceChoices : GameLoop(k, ~_gameInPlay)

\* One run of the setInterval callback of StartGame.
Tick ==
    /\ intervalId
    /\ ticks < MaxTicks
    /\ ticks' = ticks + 1
    /\ Callback

\* MovePiece with the loops left after the first occupied cell.
MovePiece_FirstCellOnly(rows, p, moveLeft) ==
    LET c == Cells(p)[1]
    IN  /\ ~((moveLeft /\ c.x = 0) \/ SquareFixedAt(rows, c.x - 1, c.y))
        /\ ~((~moveLeft /\ c.x = _boardWidth - 1) \/ SquareFixedAt(rows, c.x + 1, c.y))

\* Whether the loops of MovePieceSideways run to their end without return.
MovePiece(rows, p, moveLeft) ==
    \A c \in Range(Cells(p)) :
        /\ ~((moveLeft /\ c.x = 0) \/ SquareFixedAt(rows, c.x - 1, c.y))
        /\ ~((~moveLeft /\ c.x = _boardWidth - 1) \/ SquareFixedAt(rows, c.x + 1, c.y))

\* The move keeps the piece within MaxShift columns of the board.
WithinShift(p, moveLeft) ==
    \A c \in Range(Cells(p)) :
        IF moveLeft THEN c.x - 1 >= -MaxShift
        ELSE c.x + 1 <= _boardWidth - 1 + MaxShift

\* MovePieceSideways(moveLeft). With _activePiece still the initial empty
\* array the loop header reads _activePiece.m.length and throws; with null
\* the function returns at once. Neither changes the state.
MovePieceSideways(moveLeft) ==
    IF _activePiece.tag = "piece" /\ MovePiece(_collisionRows, _activePiece, moveLeft)
    THEN /\ WithinShift(_activePiece, moveLeft)
         /\ _activePiece' = [_activePiece EXCEPT !.x = @ + (IF moveLeft THEN -1 ELSE 1)]
         /\ UNCHANGED <<_gameInPlay, _gamePaused, _placedSquares, _fallingSquares,
                        _collisionRows, _pieceInPlay, heap, intervalId,
                        gameOverDrawn, ticks, lastTick, probe>>
    ELSE UNCHANGED vars

\* HandleKeyInput, case 'ArrowLeft'.
ArrowLeft == MovePieceSideways(TRUE)

\* HandleKeyInput, case 'ArrowRight'.
ArrowRight == MovePieceSideways(FALSE)

\* HandleKeyInput, case 'ArrowUp'. RotatePiece of the initial empty array
\* throws on m.length, leaving the state as it was.
ArrowUp ==
    IF _activePiece.tag = "piece"
    THEN /\ _activePiece' = [_activePiece EXCEPT !.m = RotatePiece(@)]
         /\ UNCHANGED <<_gameInPlay, _gamePaused, _placedSquares, _fallingSquares,
                        _collisionRows, _pieceInPlay, heap, intervalId,
                        gameOverDrawn, ticks, lastTick, probe>>
    ELSE UNCHANGED vars

\* TogglePause with the key also putting the game back in play.
TogglePause_Restart ==
    /\ _gamePaused' = ~_gamePaused
    /\ _gameInPlay' = TRUE
    /\ UNCHANGED <<_placedSquares, _fallingSquares, _collisionRows,
                   _activePiece, _pieceInPlay, heap, intervalId, gameOverDrawn,
                   ticks, lastTick, probe>>

\* HandleKeyInput, case 'p'.
TogglePause ==
    /\ _gamePaused' = ~_gamePaused
    /\ UNCHANGED <<_gameInPlay, _placedSquares, _fallingSquares, _collisionRows,
                   _activePiece, _pieceInPlay, heap, intervalId, gameOverDrawn,
                   ticks, lastTick, probe>>

Next == Tick \/ ArrowLeft \/ ArrowRight \/ ArrowUp \/ TogglePause

Spec == Init /\ [][Next]_vars

\* ------------------------------------------- the timer that keeps firing
\* setInterval calls the callback again: explored for MaxLiveTicks callbacks
\* and then for as long as the piece in play has not landed; past
\* MaxLiveTicks the counter only alternates.
TimerFires ==
    /\ intervalId
    /\ ticks < MaxLiveTicks \/ _pieceInPlay
    /\ ticks' = IF ticks <= MaxLiveTicks THEN ticks + 1 ELSE MaxLiveTicks

\* One run of the setInterval callback.
TickLive == TimerFires /\ Callback

LiveNext == TickLive \/ ArrowLeft \/ ArrowRight \/ ArrowUp \/ TogglePause

\* setInterval keeps calling the callback until clearInterval.
LiveSpec == Init /\ [][LiveNext]_vars /\ WF_ticks(TimerFires)

\* ---------------------------------------------- RotatePiece on its own
\* The number of occupied (non-false) entries of a square matrix.
Occupied(m) ==
    Cardinality({rc \in (1..Len(m)) \X (1..Len(m)) : m[rc[1]][rc[2]] # NoSquare})

\* The n x n matrices of false / colour entries with at most MaxOccupied
\* occupied entries.
Matrices(n) ==
    {m \in [1..n -> [1..n -> {NoSquare, "cyan"}]] : Occupied(m) <= MaxOccupied}

\* RotatePiece called directly on an arbitrary 3x3 or 4x4 matrix, kept in
\* _activePiece.m; probe.before keeps the matrix of the first call.
RotateInit ==
    /\ \E m \in Matrices(3) \cup Matrices(4) :
          /\ _activePiece = [tag |-> "piece", x |-> 0, y |-> 0, m |-> m]
          /\ probe = [NoProbe EXCEPT !.before = m]
    /\ _collisionRows = [i \in 1.._boardHeight |-> {}]
    /\ _gameInPlay = TRUE
    /\ _gamePaused = FALSE
    /\ _placedSquares = << >>
    /\ _fallingSquares = << >>
    /\ _pieceInPlay = TRUE
    /\ heap = << >>
    /\ intervalId = FALSE
    /\ gameOverDrawn = 0
    /\ ticks = 0
    /\ lastTick = NoTick

\* _activePiece.m = RotatePiece(_activePiece.m), at most MaxRotations times.
CallRotate ==
    /\ probe.n < MaxRotations
    /\ _activePiece' = [_activePiece EXCEPT !.m = RotatePiece(@)]
    /\ probe' = [probe EXCEPT !.op = "rotate", !.n = @ + 1]
    /\ UNCHANGED <<_gameInPlay, _gamePaused, _placedSquares, _fallingSquares,
                   _collisionRows, _pieceInPlay, heap, intervalId,
                   gameOverDrawn, ticks, lastTick>>

RotateNext == CallRotate

RotateSpec == RotateInit /\ [][RotateNext]_vars

\* ------------------------------------------------- the index on its own
\* FixSquareAt and UnfixSquareAt called directly on a collision index whose
\* rows hold an arbitrary set a of column bits (odd rows) and the
\* complementary set of column bits (even rows).
IndexInit ==
    /\ \E a \in SUBSET (0..(_boardWidth - 1)) :
          _collisionRows = [i \in 1.._boardHeight |->
                              IF i % 2 = 1 THEN a ELSE (0..(_boardWidth - 1)) \ a]
    /\ _gameInPlay = TRUE
    /\ _gamePaused = FALSE
    /\ _placedSquares = << >>
    /\ _fallingSquares = << >>
    /\ _activePiece = EmptyArray
    /\ _pieceInPlay = FALSE
    /\ heap = << >>
    /\ intervalId = FALSE
    /\ gameOverDrawn = 0
    /\ ticks = 0
    /\ lastTick = NoTick
    /\ probe = NoProbe

IndexFrame ==
    UNCHANGED <<_gameInPlay, _gamePaused, _placedSquares, _fallingSquares,
                _activePiece, _pieceInPlay, heap, intervalId, gameOverDrawn,
                ticks, lastTick>>

\* Calls go to one cell (x, y), at most MaxProbeCalls of them.
ProbeAllowed(x, y) ==
    /\ probe.n < MaxProbeCalls
    /\ probe.n = 0 \/ (probe.x = x /\ probe.y = y)

CallFix ==
    \E x \in 0..(_boardWidth - 1), y \in 0..(_boardHeight - 1) :
        /\ ProbeAllowed(x, y)
        /\ _collisionRows' = FixSquareAt(_collisionRows, x, y)
        /\ probe' = [op |-> "fix", x |-> x, y |-> y,
                     before |-> _collisionRows, n |-> probe.n + 1]
        /\ IndexFrame

CallUnfix ==
    \E x \in 0..(_boardWidth - 1), y \in 0..(_boardHeight - 1) :
        /\ ProbeAllowed(x, y)
        /\ _collisionRows' = UnfixSquareAt(_collisionRows, x, y)
        /\ probe' = [op |-> "unfix", x |-> x, y |-> y,
                     before |-> _collisionRows, n |-> probe.n + 1]
        /\ IndexFrame

IndexNext == CallFix \/ CallUnfix

IndexSpec == IndexInit /\ [][IndexNext]_vars

\* ---------------------------------------------------------------- claims
\* The squares of _placedSquares that lie at column c of row r.
PlacedAt(c, r) ==
    {i \in DOMAIN _placedSquares :
        heap[_placedSquares[i]].x = c /\ heap[_placedSquares[i]].y = r}

\* C1: in every reachable state, for every cell (c, r) of the board, bit c
\* of _collisionRows[r] is set if and only if exactly one square of
\* _placedSquares has the coordinates (c, r).
C1_IndexAgreesWithPlaced ==
    \A r \in 0..(_boardHeight - 1) : \A c \in 0..(_boardWidth - 1) :
        (c \in Row(_collisionRows, r)) <=> (Cardinality(PlacedAt(c, r)) = 1)

\* C2: in every reachable state no two squares of _placedSquares have the
\* same (x, y).
C2_PlacedUniqueByCoordinate ==
    \A i, j \in DOMAIN _placedSquares :
        i # j => \/ heap[_placedSquares[i]].x # heap[_placedSquares[j]].x
                 \/ heap[_placedSquares[i]].y # heap[_placedSquares[j]].y

\* C3: in every reachable state no square is both in _placedSquares and in
\* _fallingSquares, and no square occurs twice in _fallingSquares.
C3_PlacedFallingDisjoint ==
    /\ Range(_placedSquares) \cap Range(_fallingSquares) = {}
    /\ \A i, j \in DOMAIN _fallingSquares :
          i # j => _fallingSquares[i] # _fallingSquares[j]

\* C6: in every reachable state the test of the row-clear scan succeeds on
\* row r if and only if every column bit 0.._boardWidth-1 of row r is set.
C6_FullTestIffAllColumnsSet ==
    \A r \in 0..(_boardHeight - 1) :
        RowIsFull(_collisionRows, r)
            <=> (\A c \in 0..(_boardWidth - 1) : SquareFixedAt(_collisionRows, c, r))

\* C4: after FixSquareAt(x, y) on an in-range cell SquareFixedAt(x, y) is
\* true, and after UnfixSquareAt(x, y) it is false.
C4_FixSetsUnfixClears ==
    /\ probe.op = "fix" => SquareFixedAt(_collisionRows, probe.x, probe.y)
    /\ probe.op = "unfix" => ~SquareFixedAt(_collisionRows, probe.x, probe.y)

\* C5: FixSquareAt(x, y) and UnfixSquareAt(x, y) leave every bit other than
\* bit x of row y as it was; a fix of a set bit and an unfix of an unset bit
\* leave the whole index as it was.
C5_FixUnfixTouchOneBit ==
    probe.op # "none" =>
        /\ \A r \in 0..(_boardHeight - 1) : \A c \in 0..(IntBits - 1) :
              (r # probe.y \/ c # probe.x)
                  => ((c \in Row(_collisionRows, r)) <=> (c \in Row(probe.before, r)))
        /\ (probe.op = "fix" /\ SquareFixedAt(probe.before, probe.x, probe.y))
              => _collisionRows = probe.before
        /\ (probe.op = "unfix" /\ ~SquareFixedAt(probe.before, probe.x, probe.y))
              => _collisionRows = probe.before

\* No occupied cell of pieceTypes[k], moved to the spawn column, has its
\* collision bit set.
SpawnCellsFree(k) ==
    LET blocks == pieceTypes[k].blocks
    IN  \A i, j \in 1..Len(blocks) :
            blocks[i][j] = 1 => (j - 1 + SpawnOffset) \notin Row(_collisionRows, i - 1)

\* The step is a timer callback that reaches the spawn of GameLoop.
SpawningTick == ticks' = ticks + 1 /\ ~_gamePaused /\ ~_pieceInPlay

\* C7: in an unpaused tick with no active piece the generated piece becomes
\* the active piece (and the game logic then runs on it) if and only if none
\* of its occupied cells has its collision bit set; otherwise no piece is
\* active and _gameInPlay is false. On an empty board the spawn succeeds
\* whichever of the 7 shapes is generated.
C7_SpawnIffCellsFree ==
    [][SpawningTick =>
        LET k == lastTick'.shape
        IN  /\ k \in PieceChoices
            /\ SpawnCellsFree(k) =>
                  /\ lastTick'.spawn = "ok"
                  /\ _gameInPlay' = _gameInPlay
                  /\ Game' = RunLogic([Game EXCEPT !.piece = SpawnPiece(k),
                                                   !.inPlay = TRUE])
            /\ ~SpawnCellsFree(k) =>
                  /\ lastTick'.spawn = "failed"
                  /\ ~_gameInPlay'
                  /\ ~_pieceInPlay'
                  /\ _activePiece'.tag # "piece"
            /\ (\A r \in 0..(_boardHeight - 1) : Row(_collisionRows, r) = {})
                  => lastTick'.spawn = "ok"]_vars

\* A spawn has failed on an occupied spawn position and ended the game.
C7_Witness ==
    /\ lastTick.spawn = "failed"
    /\ ~_gameInPlay
    /\ ~_pieceInPlay
    /\ \E r \in 0..2 : Row(_collisionRows, r) # {}

\* C8: _gameInPlay becomes false only in a tick whose spawn attempt failed,
\* and once it is false no tick and no key makes it true again.
C8_OverOnlyByFailedSpawnAndTerminal ==
    [][/\ ~_gameInPlay => ~_gameInPlay'
       /\ (_gameInPlay /\ ~_gameInPlay') =>
             /\ SpawningTick
             /\ lastTick'.spawn = "failed"
             /\ ~SpawnCellsFree(lastTick'.shape)]_vars

\* The game is over, the last timer callback has run after that and the
\* player has pressed 'p' since.
C8_Witness == ~_gameInPlay /\ gameOverDrawn = 1 /\ ~intervalId /\ _gamePaused

\* C9: DrawGameOver is called once, and the callback that calls it (after
\* which the timer is cleared) runs no spawn, no gravity step and no
\* row-clear scan.
C9_NotifyOnceThenNothingRuns ==
    /\ gameOverDrawn <= 1
    /\ lastTick.notified => (lastTick.spawn = "none" /\ ~lastTick.ran)

\* The states ProcessGravity can be called in from the current state: the
\* current one if a piece is in play, else the one after a spawn that fits.
GravityInputs ==
    IF _pieceInPlay THEN {Game}
    ELSE {SpawnNewPiece(Game, k) : k \in {kk \in PieceChoices : SpawnCellsFree(kk)}}

\* The cell (x, y) is a cell of the board.
InBoard(x, y) == x \in 0..(_boardWidth - 1) /\ y \in 0..(_boardHeight - 1)

\* C10: in a gravity step with an active piece, if for every occupied cell
\* (x, y) the cell (x, y+1) is inside the board and not fixed, the piece
\* moves down by exactly 1 and the fixed squares and the collision index stay
\* as they are; otherwise the piece lands in that step: one fixed square of
\* the piece's color is added and the collision bit is set for each occupied
\* cell, and no piece is active.
C10_GravityMovesOrLands ==
    \A g \in GravityInputs :
        LET post == PieceGravity(g)
            cells == Cells(g.piece)
            clear == \A c \in Range(cells) :
                        InBoard(c.x, c.y + 1) /\ ~SquareFixedAt(g.rows, c.x, c.y + 1)
        IN  IF clear
            THEN /\ post.piece = [g.piece EXCEPT !.y = @ + 1]
                 /\ post.inPlay
                 /\ post.placed = g.placed
                 /\ post.heap = g.heap
                 /\ post.rows = g.rows
            ELSE /\ post.piece.tag # "piece"
                 /\ ~post.inPlay
                 /\ Len(post.placed) = Len(g.placed) + Len(cells)
                 /\ \A n \in 1..Len(g.placed) : post.placed[n] = g.placed[n]
                 /\ \A n \in 1..Len(cells) :
                       post.heap[post.placed[Len(g.placed) + n]] = cells[n]
                 /\ \A c \in Range(cells) : SquareFixedAt(post.rows, c.x, c.y)

\* The column step of a sideways move.
Dx(moveLeft) == IF moveLeft THEN -1 ELSE 1

Columns == 0..(_boardWidth - 1)

\* Some occupied cell of the active piece would leave the columns of the
\* board, or would land on a set collision bit, in the direction of the move.
BlockedInDirection(moveLeft) ==
    \E c \in Range(Cells(_activePiece)) :
        \/ c.x \in Columns /\ (c.x + Dx(moveLeft)) \notin Columns
        \/ SquareFixedAt(_collisionRows, c.x + Dx(moveLeft), c.y)

\* C11: whenever at least one occupied cell of the active piece would leave
\* the columns [0, _boardWidth) or land on a set collision bit in the
\* direction of the move, MovePieceSideways does not move the piece: its
\* loops end in a return and no step shifts the piece in that direction.
C11_SidewaysAllOrNothing ==
    [][\A moveLeft \in BOOLEAN :
          (_activePiece.tag = "piece" /\ BlockedInDirection(moveLeft)) =>
              /\ ~MovePiece(_collisionRows, _activePiece, moveLeft)
              /\ _activePiece' # [_activePiece EXCEPT !.x = @ + Dx(moveLeft)]]_vars

\* The active piece has a cell stopped by a fixed square on its left and
\* another cell whose left neighbour is a free cell of the board.
C11_Witness ==
    /\ _activePiece.tag = "piece"
    /\ \E c \in Range(Cells(_activePiece)) :
          (c.x - 1) \in Columns /\ SquareFixedAt(_collisionRows, c.x - 1, c.y)
    /\ \E c \in Range(Cells(_activePiece)) :
          (c.x - 1) \in Columns /\ ~SquareFixedAt(_collisionRows, c.x - 1, c.y)

\* C17: if for every occupied cell of the active piece the destination column
\* of the move is inside [0, _boardWidth) and the destination's collision bit
\* is not set, MovePieceSideways moves the piece (its loops end without a
\* return), whatever is fixed on the other side of the piece.
C17_MoveSucceedsWhenFreeInDirection ==
    \A moveLeft \in BOOLEAN :
        (/\ _activePiece.tag = "piece"
         /\ \A c \in Range(Cells(_activePiece)) :
               /\ (c.x + Dx(moveLeft)) \in Columns
               /\ ~SquareFixedAt(_collisionRows, c.x + Dx(moveLeft), c.y))
        => MovePiece(_collisionRows, _activePiece, moveLeft)

\* C12: for every 3x3 and 4x4 matrix m, RotatePiece applied four times
\* returns m exactly, and every application keeps the number of occupied
\* cells.
C12_FourRotationsAreIdentity ==
    /\ probe.n = 4 => _activePiece.m = probe.before
    /\ Occupied(_activePiece.m) = Occupied(probe.before)

\* A matrix that a quarter turn changes has been turned four times.
C12_Witness ==
    /\ probe.op = "rotate"
    /\ probe.n = 4
    /\ RotatePiece(probe.before) # probe.before
    /\ Occupied(probe.before) = 4

\* The states CheckForRowsCleared can be called in from the current state:
\* those ProcessGravity leaves.
ScanInputs == {ProcessGravity(g) : g \in GravityInputs}

\* The rows the bitmask test of the scan holds for when the scan starts.
FullRows(g) == {i \in 0..(_boardHeight - 1) : RowIsFull(g.rows, i)}

\* The fixed squares (references into the heap) of g on the rows in ys.
PlacedOnRows(g, ys) == {r \in Range(g.placed) : g.heap[r].y \in ys}

\* C13: when the scan finds row r full (r is the first full row) and there
\* are fixed squares on the rows above it, after the scan no fixed square is
\* at row r, the bitmask of row r is 0, and every square that was fixed above
\* row r is in the falling list with its collision bit unset.
C13_ClearReleasesRowsAbove ==
    \A g \in ScanInputs :
        \A r \in FullRows(g) :
            (/\ \A i \in FullRows(g) : r <= i
             /\ PlacedOnRows(g, 0..(r - 1)) # {})
            => LET post == CheckForRowsCleared(g)
               IN  /\ PlacedOnRows(post, {r}) = {}
                   /\ Row(post.rows, r) = {}
                   /\ \A b \in PlacedOnRows(g, 0..(r - 1)) :
                         /\ b \in Range(post.falling)
                         /\ ~SquareFixedAt(post.rows, post.heap[b].x, post.heap[b].y)

\* C14: RemoveRow(y), called by the scan on the first full row y, leaves
\* every fixed square below row y (row index > y) as it was: still fixed,
\* its collision bit still set, and not added to the falling list.
C14_RemoveRowKeepsRowsBelow ==
    \A g \in ScanInputs :
        \A y \in FullRows(g) :
            (\A i \in FullRows(g) : y <= i)
            => LET post == RemoveRow(g, y)
               IN  \A b \in PlacedOnRows(g, (y + 1)..(_boardHeight - 1)) :
                      /\ b \in Range(post.placed)
                      /\ post.heap[b] = g.heap[b]
                      /\ SquareFixedAt(post.rows, g.heap[b].x, g.heap[b].y)
                      /\ b \in Range(post.falling) => b \in Range(g.falling)

\* C15: every row whose bitmask is exactly full when the scan of an unpaused
\* tick starts is cleared by that scan: no fixed square is left on it, also
\* when two or more rows are full.
C15_EveryFullRowCleared ==
    \A g \in ScanInputs :
        \A r \in FullRows(g) :
            PlacedOnRows(CheckForRowsCleared(g), {r}) = {}

\* C16: a timer callback that finds the game paused leaves the active piece,
\* the fixed squares, the falling list, the collision index and the
\* Running/Over flag as they are, and the pause key changes nothing but the
\* pause flag, so that after the second key press the callbacks go on from
\* exactly the state the game was paused in.
C16_PausedTickIsNoOp ==
    [][/\ (_gamePaused /\ ticks' # ticks) =>
             UNCHANGED <<_activePiece, _pieceInPlay, _placedSquares,
                         _fallingSquares, _collisionRows, heap, _gameInPlay,
                         _gamePaused>>
       /\ (_gamePaused' # _gamePaused) =>
             UNCHANGED <<_activePiece, _pieceInPlay, _placedSquares,
                         _fallingSquares, _collisionRows, heap, _gameInPlay,
                         intervalId, ticks>>]_vars

\* The last callback found the game paused with a piece in play and fixed
\* squares on the board, and the game has been unpaused since.
C16_Witness ==
    /\ ticks > 0
    /\ ~lastTick.ran /\ lastTick.spawn = "none"
    /\ _pieceInPlay
    /\ _placedSquares # << >>
    /\ ~_gamePaused
    /\ intervalId

\* ------------------------------------------- arguments of the index calls
\* The (x, y) arguments SpawnNewPiece passes to SquareFixedAt: the cells of
\* the piece up to the first fixed one.
RECURSIVE SpawnCallsFrom(_, _, _)
SpawnCallsFrom(rows, cells, n) ==
    IF n > Len(cells) THEN {}
    ELSE {<<cells[n].x, cells[n].y>>} \cup
         (IF SquareFixedAt(rows, cells[n].x, cells[n].y) THEN {}
          ELSE SpawnCallsFrom(rows, cells, n + 1))

\* The arguments of SquareFixedAt in the first loop of ProcessGravity: y > 
\* _boardHeight-2 short-circuits the call, and the break skips the cells to
\* the right of a stopped cell on the same matrix row.
GravityCalls(g) ==
    LET cells == Range(Cells(g.piece))
    IN  {<<c.x, c.y + 1>> : c \in
            {cc \in cells :
                /\ ~(cc.y > _boardHeight - 2)
                /\ \A d \in cells :
                      (d.y = cc.y /\ d.x < cc.x) =>
                          ~SquareFixedAt(g.rows, d.x, d.y + 1)}}

\* The arguments of FixSquareAt when the piece lands.
LandCalls(g) ==
    IF MovePlayerPiece(g) THEN {}
    ELSE {<<c.x, c.y>> : c \in Range(Cells(g.piece))}

\* The arguments of SquareFixedAt and FixSquareAt in the forEach over
\* _fallingSquares, from index k on.
RECURSIVE SquaresGravityCalls(_, _)
SquaresGravityCalls(g, k) ==
    IF k > Len(g.falling) THEN {}
    ELSE LET r == g.falling[k]
             b == g.heap[r]
             fixed == [g EXCEPT !.rows = FixSquareAt(g.rows, b.x, b.y)]
         IN  IF b.y < _boardHeight - 1
             THEN {<<b.x, b.y + 1>>} \cup
                  (IF ~SquareFixedAt(g.rows, b.x, b.y + 1)
                   THEN SquaresGravityCalls([g EXCEPT !.heap[r].y = @ + 1], k + 1)
                   ELSE {<<b.x, b.y>>} \cup SquaresGravityCalls(fixed, k + 1))
             ELSE {<<b.x, b.y>>} \cup SquaresGravityCalls(fixed, k + 1)

\* The arguments of UnfixSquareAt in the RemoveRow calls of the scan from
\* row i on.
RECURSIVE ScanCalls(_, _)
ScanCalls(g, i) ==
    IF i >= _boardHeight THEN {}
    ELSE IF RowIsFull(g.rows, i)
    THEN {<<g.heap[r].x, g.heap[r].y>> : r \in {rr \in Range(g.placed) : g.heap[rr].y # i}}
         \cup ScanCalls(RemoveRow(g, i), i + 1)
    ELSE ScanCalls(g, i + 1)

\* The arguments of every index call of ProcessGravity and the scan.
LogicCalls(g) ==
    GravityCalls(g) \cup LandCalls(g)
    \cup SquaresGravityCalls(PieceGravity(g), 1)
    \cup ScanCalls(ProcessGravity(g), 0)

\* The arguments of every index call of a timer callback that draws
\* pieceTypes[k] from the current state.
TickCalls(k) ==
    IF ~intervalId \/ _gamePaused THEN {}
    ELSE IF ~_pieceInPlay
    THEN SpawnCallsFrom(_collisionRows, Cells(SpawnPiece(k)), 1) \cup
         (IF SpawnFits(_collisionRows, k)
          THEN LogicCalls(SpawnNewPiece(Game, k)) ELSE {})
    ELSE LogicCalls(Game)

\* The arguments of SquareFixedAt in the loop of MovePieceSideways, from the
\* n-th occupied cell on: each || evaluates its call only when the test on
\* its left is false, and the else-if only when the if did not return.
RECURSIVE MoveCallsFrom(_, _, _, _)
MoveCallsFrom(rows, cells, n, moveLeft) ==
    IF n > Len(cells) THEN {}
    ELSE LET c == cells[n]
             atLeft == moveLeft /\ c.x = 0
             return1 == atLeft \/ SquareFixedAt(rows, c.x - 1, c.y)
             atRight == ~moveLeft /\ c.x = _boardWidth - 1
             return2 == atRight \/ SquareFixedAt(rows, c.x + 1, c.y)
         IN  (IF atLeft THEN {} ELSE {<<c.x - 1, c.y>>})
             \cup (IF return1 \/ atRight THEN {} ELSE {<<c.x + 1, c.y>>})
             \cup (IF return1 \/ return2 THEN {}
                   ELSE MoveCallsFrom(rows, cells, n + 1, moveLeft))

\* The arguments of the index calls of MovePieceSideways(moveLeft) in the
\* current state.
MoveCalls(moveLeft) ==
    IF _activePiece.tag = "piece"
    THEN MoveCallsFrom(_collisionRows, Cells(_activePiece), 1, moveLeft)
    ELSE {}

\* C18: every call of SquareFixedAt, FixSquareAt and UnfixSquareAt that a
\* timer callback or a sideways move makes from a reachable state has
\* 0 <= x < _boardWidth and 0 <= y < _boardHeight.
C18_IndexCallsInRange ==
    \A xy \in (UNION {TickCalls(k) : k \in PieceChoices})
              \cup MoveCalls(TRUE) \cup MoveCalls(FALSE) :
        InBoard(xy[1], xy[2])

\* C19: every square of the fixed set and of the falling list has
\* 0 <= x < _boardWidth and 0 <= y < _boardHeight, and the collision index
\* has exactly _boardHeight rows with no bit set at position >= _boardWidth.
C19_SquaresAndIndexInBoard ==
    /\ \A r \in Range(_placedSquares) \cup Range(_fallingSquares) :
          InBoard(heap[r].x, heap[r].y)
    /\ Len(_collisionRows) = _boardHeight
    /\ \A i \in 1..Len(_collisionRows) :
          _collisionRows[i] \subseteq 0..(_boardWidth - 1)

\* A timer callback that finds the game unpaused.
UnpausedTick == ~_gamePaused /\ TimerFires

\* While the timer is armed, the piece in play eventually lands.
PieceLands == (intervalId /\ _pieceInPlay) ~> ~_pieceInPlay

\* piece.y increases by 1 at every unpaused callback that does not land the
\* piece, and no step decreases it.
PieceOnlyFalls ==
    [][/\ (UnpausedTick /\ _pieceInPlay /\ _pieceInPlay') =>
              _activePiece'.y = _activePiece.y + 1
       /\ (_pieceInPlay /\ _pieceInPlay') =>
              _activePiece'.y >= _activePiece.y]_vars

\* C20 as stated: if the timer callbacks keep firing and the game is not
\* paused forever, every active piece eventually lands, under any
\* interleaving of the move and rotate keys; piece.y increases at every
\* unpaused callback until the landing one and never decreases.
C20_PieceEventuallyLands ==
    /\ ([]<>(~_gamePaused)) => PieceLands
    /\ PieceOnlyFalls

\* C20 amended: if timer callbacks that find the game unpaused keep firing,
\* every active piece eventually lands, under any interleaving of the move
\* and rotate keys; piece.y increases at every unpaused callback until the
\* landing one and never decreases.
C20_LandsIfUnpausedTicksKeepFiring ==
    /\ ([]<><<UnpausedTick>>_vars) => PieceLands
    /\ PieceOnlyFalls

\* A second piece has landed (eight fixed squares) in a callback past
\* MaxLiveTicks, with the game still in play.
C20_Witness ==
    /\ ticks > MaxLiveTicks
    /\ lastTick.ran /\ lastTick.spawn = "none"
    /\ ~_pieceInPlay /\ _activePiece.tag = "null"
    /\ Len(_placedSquares) >= 8
    /\ gameOverDrawn = 0

====
